---- MODULE Spec2Model ----
(***************************************************************************)
(* Model of dfgiatk/loaders/image_loader.py: the DatasetSampler iterable   *)
(* and the ClassificationLabeler / LocalizationLabeler label strategies.   *)
(*                                                                         *)
(* Python values are encoded as follows.                                   *)
(*   None            the empty tuple <<>>; an int argument n is <<n>>      *)
(*   a list / tuple  a sequence; Python position i is TLA+ position i + 1  *)
(*   a str           a sequence of one-character strings                   *)
(*   a path          the sequence of its '/'-separated components          *)
(*   raise E         a record [ok |-> FALSE, exc |-> "E"]                  *)
(***************************************************************************)
EXTENDS Integers, Sequences, FiniteSets, TLC

(* ---------------------------------------------------------------------- *)
(* Bounds of the model                                                     *)
(* ---------------------------------------------------------------------- *)
MaxSamples == 4
MaxRandomSamples == 2
MaxEpoch == 2
MaxBatch == 2
MaxClassSamples == 3
MaxNameLen == 5

VARIABLES
    samples,          \* DatasetSampler.samples
    args,             \* the epoch_size / batch_size arguments __init__ was given
    batch_size,       \* DatasetSampler.batch_size
    epoch_size,       \* DatasetSampler.epoch_size
    random_sampling,  \* DatasetSampler.random_sampling
    return_names,     \* DatasetSampler.return_names
    loader,           \* DatasetSampler.loader   (its transform attribute)
    labeler,          \* DatasetSampler.labeler  (its transform attribute)
    has_it,           \* whether the attribute DatasetSampler.it exists yet
    it,               \* DatasetSampler.it
    ret,              \* what the last __iter__ / __next__ call gave its caller
    calls,            \* the collaborator calls the last __next__ made, in order
    yielded,          \* batches returned since the last __iter__
    cl_samples,       \* the samples ClassificationLabeler.__init__ was given
    classes,          \* ClassificationLabeler.classes
    one_hot,          \* ClassificationLabeler.one_hot
    cl_ret,           \* the last ClassificationLabeler.get_label call and its result
    locations,        \* LocalizationLabeler.locations
    loc_sample,       \* the sample reference LocalizationLabeler.get_label is given
    loc_ret           \* the last LocalizationLabeler.get_label call and its result

sampler_vars == <<samples, args, batch_size, epoch_size, random_sampling,
                  return_names, loader, labeler, has_it, it, ret, calls, yielded>>

classification_vars == <<cl_samples, classes, one_hot, cl_ret>>

localization_vars == <<locations, loc_sample, loc_ret>>

vars == <<sampler_vars, classification_vars, localization_vars>>

None == <<>>

\* The objects a run does not construct stay absent.
NoSampler ==
    /\ samples = <<>>
    /\ args = None
    /\ batch_size = 0
    /\ epoch_size = 0
    /\ random_sampling = FALSE
    /\ return_names = FALSE
    /\ loader = None
    /\ labeler = None
    /\ has_it = FALSE
    /\ it = 0
    /\ ret = None
    /\ calls = <<>>
    /\ yielded = 0

NoClassificationLabeler ==
    /\ cl_samples = <<>>
    /\ classes = <<>>
    /\ one_hot = FALSE
    /\ cl_ret = None

NoLocalizationLabeler ==
    /\ locations = None
    /\ loc_sample = <<>>
    /\ loc_ret = None

device == "cuda"

Raise(e, log) == [ok |-> FALSE, exc |-> e, calls |-> log]

(* ---------------------------------------------------------------------- *)
(* DatasetSampler.__init__                                                 *)
(* ---------------------------------------------------------------------- *)

\* `a if a is not None else n`: 0 is no longer replaced by the default.
or_len_none_only(a, n) == IF a = None THEN n ELSE a[1]

\* Python's `a or n` for an argument that is None or an int: None and 0 are falsy.
or_len(a, n) == IF a = None THEN n ELSE IF a[1] = 0 THEN n ELSE a[1]

SizeArgs(m) == {None} \cup {<<n>> : n \in 0..m}

\* The manifests the sampler is built over: n distinct sample references, in
\* order. Random mode draws batch_size times from the whole list, so its lists
\* are kept shorter than those of sequential mode.
SampleLists(rnd) ==
    {[i \in 1..n |-> i] : n \in 0..(IF rnd THEN MaxRandomSamples ELSE MaxSamples)}

\* A Labeler-shaped collaborator: only its transform attribute (set or None) matters.
Labeler(has_transform) == [transform |-> has_transform]

DatasetSampler__init__(s, e, b, rnd, names, ld, lb) ==
    /\ batch_size = or_len(b, Len(s))
    /\ epoch_size = or_len(e, Len(s))
    /\ loader = ld
    /\ labeler = lb
    /\ samples = s
    /\ random_sampling = rnd
    /\ return_names = names
    /\ args = [epoch_size |-> e, batch_size |-> b]

Init ==
    /\ \E rnd \in BOOLEAN, names \in BOOLEAN, lt \in BOOLEAN, yt \in BOOLEAN,
          e \in SizeArgs(MaxEpoch), b \in SizeArgs(MaxBatch) :
          \E s \in SampleLists(rnd) :
          DatasetSampler__init__(s, e, b, rnd, names, Labeler(lt), Labeler(yt))
    /\ has_it = FALSE
    /\ it = 0
    /\ ret = [ok |-> TRUE, op |-> "__init__"]
    /\ calls = <<>>
    /\ yielded = 0
    /\ NoClassificationLabeler
    /\ NoLocalizationLabeler

(* ---------------------------------------------------------------------- *)
(* DatasetSampler.get_sample                                               *)
(* ---------------------------------------------------------------------- *)

\* Labeler.get_label is abstract: it resolves the reference to a value that
\* depends on the reference, or fails (missing file, missing key, bad name).
Labeler_get_label(who, s) ==
    { [ok |-> TRUE, val |-> [by |-> who, of |-> s]],
      [ok |-> FALSE, exc |-> who] }

\* self.samples[i] in both modes: the random branch is lost.
select_by_position(i) ==
    IF i < Len(samples)
    THEN {[ok |-> TRUE, val |-> samples[i + 1]]}
    ELSE {[ok |-> FALSE, exc |-> "IndexError"]}

\* random.choice(self.samples) if self.random_sampling else self.samples[i]
select(i) ==
    IF random_sampling
    THEN IF Len(samples) = 0
         THEN {[ok |-> FALSE, exc |-> "IndexError"]}
         ELSE {[ok |-> TRUE, val |-> samples[j]] : j \in 1..Len(samples)}
    ELSE IF i < Len(samples)
         THEN {[ok |-> TRUE, val |-> samples[i + 1]]}
         ELSE {[ok |-> FALSE, exc |-> "IndexError"]}

Call(fn, a) == [fn |-> fn, arg |-> a]

resolve(sample_path) ==
    UNION { IF ~x.ok
            THEN {Raise(x.exc, <<Call("loader.get_label", sample_path)>>)}
            ELSE { IF ~y.ok
                   THEN Raise(y.exc, <<Call("loader.get_label", sample_path),
                                       Call("labeler.get_label", sample_path)>>)
                   ELSE [ok |-> TRUE,
                         val |-> <<x.val, y.val, sample_path>>,
                         calls |-> <<Call("loader.get_label", sample_path),
                                     Call("labeler.get_label", sample_path)>>]
                   : y \in Labeler_get_label("labeler", sample_path) }
            : x \in Labeler_get_label("loader", sample_path) }

\* The labeler is given a selection of its own instead of sample_path.
get_sample_two_selections(i) ==
    UNION { IF ~c.ok \/ ~d.ok
            THEN {Raise("IndexError", <<>>)}
            ELSE { [ok |-> TRUE,
                    val |-> <<[by |-> "loader", of |-> c.val],
                              [by |-> "labeler", of |-> d.val], c.val>>,
                    calls |-> <<Call("loader.get_label", c.val),
                                Call("labeler.get_label", d.val)>>] }
            : c \in select(i), d \in select(i) }

get_sample(i) ==
    UNION { IF c.ok THEN resolve(c.val) ELSE {Raise(c.exc, <<>>)} : c \in select(i) }

(* ---------------------------------------------------------------------- *)
(* DatasetSampler.sample_batch                                             *)
(* ---------------------------------------------------------------------- *)

\* [self.get_sample(i) for i in range(lo, lo + n)]: the slots are evaluated in
\* order and the first failure ends the comprehension, dropping what was built.
RECURSIVE comprehension(_, _)
comprehension(lo, n) ==
    IF n = 0
    THEN {[ok |-> TRUE, val |-> <<>>, calls |-> <<>>]}
    ELSE UNION { IF ~p.ok
                 THEN {p}
                 ELSE { IF g.ok
                        THEN [ok |-> TRUE,
                              val |-> Append(p.val, g.val),
                              calls |-> p.calls \o g.calls]
                        ELSE Raise(g.exc, p.calls \o g.calls)
                        : g \in get_sample(lo + n - 1) }
                 : p \in comprehension(lo, n - 1) }

Column(rows, k) == [r \in 1..Len(rows) |-> rows[r][k]]

\* self.loader.transform(xs, samples=samples): an arbitrary function of both.
loader_transform(xs, paths) == [fn |-> "loader.transform", xs |-> xs, samples |-> paths]

\* self.labeler.transform(ys): an arbitrary function of the label batch.
labeler_transform(ys) == [fn |-> "labeler.transform", ys |-> ys]

\* np.array(...) of the per-sample values: the stacked batch, slot order kept.
stack(vs) == [stacked |-> vs]

\* torch.from_numpy(a).to(self.device)
tensor(a) == [tensor |-> a, device |-> device]

\* The transform's return value is dropped and the plain stack is kept.
batch_x_untransformed(xs, paths) == stack(xs)

batch_x(xs, paths) ==
    IF loader.transform THEN loader_transform(stack(xs), paths) ELSE stack(xs)

batch_y(ys) ==
    IF labeler.transform THEN labeler_transform(stack(ys)) ELSE stack(ys)

transform_calls(xs, ys, paths) ==
    (IF loader.transform
     THEN <<Call("loader.transform", [xs |-> stack(xs), samples |-> paths])>>
     ELSE <<>>)
    \o (IF labeler.transform
        THEN <<Call("labeler.transform", [ys |-> stack(ys)])>>
        ELSE <<>>)

batch_of(rows) ==
    LET xs == Column(rows, 1)
        ys == Column(rows, 2)
        paths == Column(rows, 3)
        x == tensor(batch_x(xs, paths))
        y_true == tensor(batch_y(ys))
    IN  [val |-> IF return_names THEN <<x, y_true, paths>> ELSE <<x, y_true>>,
         calls |-> transform_calls(xs, ys, paths)]

sample_batch ==
    { IF ~r.ok
      THEN r
      ELSE IF Len(r.val) = 0
           \* xs, ys, samples = list(zip(*[])): nothing to unpack
           THEN Raise("ValueError", r.calls)
           ELSE [ok |-> TRUE,
                 val |-> batch_of(r.val).val,
                 calls |-> r.calls \o batch_of(r.val).calls]
      : r \in comprehension(it, batch_size) }

(* ---------------------------------------------------------------------- *)
(* DatasetSampler.__iter__ / __next__                                      *)
(* ---------------------------------------------------------------------- *)

config == <<samples, args, batch_size, epoch_size, random_sampling,
            return_names, loader, labeler>>

__iter__ ==
    /\ it' = 0
    /\ has_it' = TRUE
    /\ ret' = [ok |-> TRUE, op |-> "__iter__"]
    /\ calls' = <<>>
    /\ yielded' = 0
    /\ UNCHANGED <<config, classification_vars, localization_vars>>

\* `>` for `>=`: one step too many.
exhausted_off_by_one == it > epoch_size

exhausted == it >= epoch_size

\* self.it += 1 placed before the call of sample_batch.
it_after_counting_first(o) == it + 1

\* self.it once sample_batch has ended with outcome o
it_after(o) == IF o.ok THEN it + 1 ELSE it

__next__ ==
    /\ \/ /\ ~has_it
          \* self.it is first assigned by __iter__
          /\ ret' = [ok |-> FALSE, op |-> "__next__", exc |-> "AttributeError"]
          /\ calls' = <<>>
          /\ UNCHANGED <<it, yielded>>
       \/ /\ has_it
          /\ exhausted
          /\ ret' = [ok |-> FALSE, op |-> "__next__", exc |-> "StopIteration"]
          /\ calls' = <<>>
          /\ UNCHANGED <<it, yielded>>
       \/ /\ has_it
          /\ ~exhausted
          /\ \E o \in sample_batch :
                /\ ret' = IF o.ok
                          THEN [ok |-> TRUE, op |-> "__next__", val |-> o.val,
                                step |-> it]
                          ELSE [ok |-> FALSE, op |-> "__next__", exc |-> o.exc]
                /\ calls' = o.calls
                /\ it' = it_after(o)
                /\ yielded' = IF o.ok THEN yielded + 1 ELSE yielded
    /\ UNCHANGED <<has_it, config, classification_vars, localization_vars>>

Next == __iter__ \/ __next__

Spec == Init /\ [][Next]_vars

(* ---------------------------------------------------------------------- *)
(* Strings and paths                                                       *)
(* ---------------------------------------------------------------------- *)

\* ord(c) of the characters the model's names are written with
ord == [c \in {"-", ".", "/", "1", "B", "_", "a", "b", "p"} |->
          CASE c = "-" -> 45 [] c = "." -> 46 [] c = "/" -> 47 [] c = "1" -> 49
            [] c = "B" -> 66 [] c = "_" -> 95 [] c = "a" -> 97 [] c = "b" -> 98
            [] c = "p" -> 112]

\* Python's str `<`: by code point at the first difference, a proper prefix first.
str_lt(a, b) ==
    \E k \in 1..(Len(b)) :
        /\ k <= Len(a) + 1
        /\ \A j \in 1..(k - 1) : a[j] = b[j]
        /\ \/ k = Len(a) + 1
           \/ ord[a[k]] < ord[b[k]]

\* os.path.basename / os.path.dirname of a path given as its components
basename(path) == IF path = <<>> THEN <<>> ELSE path[Len(path)]

dirname(path) == IF path = <<>> THEN <<>> ELSE SubSeq(path, 1, Len(path) - 1)

(* ---------------------------------------------------------------------- *)
(* ClassificationLabeler                                                   *)
(* ---------------------------------------------------------------------- *)

get_class(s) == basename(dirname(s))

\* list({k: 1 for k in ks}.keys()): the distinct keys, in order of first insertion
RECURSIVE dict_keys(_)
dict_keys(ks) ==
    IF ks = <<>>
    THEN <<>>
    ELSE LET front == dict_keys(SubSeq(ks, 1, Len(ks) - 1))
             last == ks[Len(ks)]
         IN  IF last \in {front[k] : k \in DOMAIN front}
             THEN front
             ELSE Append(front, last)

\* list.sort() of a list of str
RECURSIVE insert_sorted(_, _)
insert_sorted(l, v) ==
    IF l = <<>>
    THEN <<v>>
    ELSE IF str_lt(v, l[1])
         THEN <<v>> \o l
         ELSE <<l[1]>> \o insert_sorted(Tail(l), v)

RECURSIVE list_sort(_)
list_sort(l) ==
    IF l = <<>> THEN <<>> ELSE insert_sorted(list_sort(Tail(l)), l[1])

\* The class list without its sort(): classes stay in order of first appearance.
classes_of_unsorted(ss) == dict_keys([k \in DOMAIN ss |-> get_class(ss[k])])

classes_of(ss) == list_sort(dict_keys([k \in DOMAIN ss |-> get_class(ss[k])]))

\* list.index(v): the first position of v, counted from 0
list_index(l, v) ==
    IF \E k \in DOMAIN l : l[k] = v
    THEN [ok |-> TRUE, val |-> (CHOOSE k \in DOMAIN l : l[k] = v /\ \A j \in 1..(k - 1) : l[j] # v) - 1]
    ELSE [ok |-> FALSE, exc |-> "ValueError"]

\* The sample paths: folders B, b and ba, a nested folder a/b, and a bare file.
File1 == <<"1", ".", "p">>

File2 == <<"1", "1", ".", "p">>

ClassPaths ==
    { <<<<"B">>, File1>>, <<<<"b">>, File1>>, <<<<"b">>, File2>>,
      <<<<"b", "a">>, File1>>, <<<<"a">>, <<"b">>, File2>>, <<File1>> }

RECURSIVE SeqsUpTo(_, _)
SeqsUpTo(S, n) ==
    IF n = 0
    THEN {<<>>}
    ELSE LET shorter == SeqsUpTo(S, n - 1)
         IN  shorter \cup {Append(q, v) : q \in shorter, v \in S}

ClassificationLabeler__init__(ss, oh) ==
    /\ cl_samples = ss
    /\ classes = classes_of(ss)
    /\ one_hot = oh

InitClassification ==
    /\ \E ss \in SeqsUpTo(ClassPaths, MaxClassSamples), oh \in BOOLEAN :
          ClassificationLabeler__init__(ss, oh)
    /\ cl_ret = [op |-> "__init__", ok |-> TRUE]
    /\ NoSampler
    /\ NoLocalizationLabeler

Classification_get_label(s) ==
    LET idx == list_index(classes, get_class(s))
    IN  IF ~idx.ok
        THEN [op |-> "get_label", s |-> s, ok |-> FALSE, exc |-> idx.exc]
        ELSE [op |-> "get_label", s |-> s, ok |-> TRUE,
              val |-> IF one_hot
                      THEN [k \in 1..Len(classes) |-> IF k = idx.val + 1 THEN 1 ELSE 0]
                      ELSE idx.val]

classification_get_label ==
    /\ \E s \in ClassPaths : cl_ret' = Classification_get_label(s)
    /\ UNCHANGED <<cl_samples, classes, one_hot, sampler_vars, localization_vars>>

NextClassification == classification_get_label

SpecClassification == InitClassification /\ [][NextClassification]_vars

(* ---------------------------------------------------------------------- *)
(* LocalizationLabeler                                                     *)
(* ---------------------------------------------------------------------- *)

\* str.index(c): the first position of c, counted from 0
str_index(s, c) ==
    IF \E k \in DOMAIN s : s[k] = c
    THEN [ok |-> TRUE, val |-> (CHOOSE k \in DOMAIN s : s[k] = c /\ \A j \in 1..(k - 1) : s[j] # c) - 1]
    ELSE [ok |-> FALSE, exc |-> "ValueError"]

\* str.split(sep): the pieces between the separators, empty pieces included
RECURSIVE str_split(_, _)
str_split(s, sep) ==
    LET at == str_index(s, sep)
    IN  IF ~at.ok
        THEN <<s>>
        ELSE <<SubSeq(s, 1, at.val)>> \o str_split(SubSeq(s, at.val + 2, Len(s)), sep)

RECURSIVE digits_value(_)
digits_value(ds) ==
    IF ds = <<>> THEN 0 ELSE 10 * digits_value(SubSeq(ds, 1, Len(ds) - 1)) + 1

\* float(c) of a str written with the digit 1, '-' and '.': an optional sign,
\* then digits with at most one point and at least one digit. The value is kept
\* as sign, digits and number of decimals, which no rounding to float32 merges
\* for names this short.
float(c) ==
    LET neg == c # <<>> /\ c[1] = "-"
        body == IF neg THEN Tail(c) ELSE c
        points == {k \in DOMAIN body : body[k] = "."}
        digits == {k \in DOMAIN body : body[k] = "1"}
    IN  IF /\ digits # {}
           /\ Cardinality(points) <= 1
           /\ points \cup digits = DOMAIN body
        THEN [ok |-> TRUE,
              val |-> [neg |-> neg,
                       digits |-> digits_value([k \in 1..Cardinality(digits) |-> "1"]),
                       decimals |-> Cardinality({k \in digits : \E q \in points : q < k})]]
        ELSE [ok |-> FALSE, exc |-> "ValueError"]

\* np.array([float(c) for c in cs], dtype=np.float32)
float_array(cs) ==
    IF \A k \in DOMAIN cs : float(cs[k]).ok
    THEN [ok |-> TRUE, val |-> [k \in DOMAIN cs |-> float(cs[k]).val]]
    ELSE [ok |-> FALSE, exc |-> "ValueError"]

\* A dict is a function on its keys; an object that may be None is <<>> or <<v>>.
dict_get(d, key) ==
    IF key \in DOMAIN d
    THEN [ok |-> TRUE, val |-> d[key]]
    ELSE [ok |-> FALSE, exc |-> "KeyError"]

\* Python's truth value of None or a dict
truthy(x) == x # None /\ DOMAIN x[1] # {}

\* if self.locations:
uses_table(x) == truthy(x)

Localization_get_label(s) ==
    LET filename_w_extension == basename(s)
        dot == str_index(filename_w_extension, ".")
    IN  IF ~dot.ok
        THEN [ok |-> FALSE, exc |-> dot.exc]
        ELSE LET file_name == SubSeq(filename_w_extension, 1, dot.val)
                 folder == basename(dirname(s))
             IN  IF uses_table(locations)
                 THEN LET entry == dict_get(locations[1], folder \o <<"/">> \o file_name)
                      IN  IF entry.ok THEN float_array(entry.val) ELSE entry
                 ELSE float_array(str_split(file_name, "_"))

\* The file names: every str of up to MaxNameLen of these characters.
NameChars == {"1", "-", ".", "_", "p"}

FileNames == SeqsUpTo(NameChars, MaxNameLen) \ {<<>>}

Folder == <<"a">>

\* The coordinate tables a labeler is built with: none, one without entries,
\* and one with the entries a/1 and a/1_1.
EmptyTable == [k \in {} |-> <<>>]

Table ==
    [k \in {<<"a", "/", "1">>, <<"a", "/", "1", "_", "1">>} |->
        IF k = <<"a", "/", "1">> THEN <<<<"1", ".", "1">>, <<"-", "1">>>>
                                 ELSE <<<<"1">>>>]

\* yaml.full_load(open(locations_path)) if locations_path is not None else None
LocalizationLabeler__init__(table) == locations = table

InitLocalization ==
    /\ \E table \in {None, <<EmptyTable>>, <<Table>>} : LocalizationLabeler__init__(table)
    /\ \E name \in FileNames : loc_sample = <<Folder, name>>
    /\ loc_ret = [op |-> "__init__", ok |-> TRUE]
    /\ NoSampler
    /\ NoClassificationLabeler

localization_get_label ==
    /\ LET r == Localization_get_label(loc_sample)
       IN  loc_ret' = [op |-> "get_label", ok |-> r.ok,
                       out |-> IF r.ok THEN r.val ELSE r.exc]
    /\ UNCHANGED <<locations, loc_sample, sampler_vars, classification_vars>>

NextLocalization == localization_get_label

SpecLocalization == InitLocalization /\ [][NextLocalization]_vars

(* ====================================================================== *)
(* Properties of DatasetSampler                                            *)
(* ====================================================================== *)

Range(f) == {f[k] : k \in DOMAIN f}

Returned == ret.op = "__next__" /\ ret.ok

Raised(e) == ret.op = "__next__" /\ ~ret.ok /\ ret.exc = e

IsTransformed(a) == "fn" \in DOMAIN a

\* The per-sample values inside a returned batch array, transformed or not.
Slots(a, field) == IF IsTransformed(a) THEN a[field].stacked ELSE a.stacked

RetXs == Slots(ret.val[1].tensor, "xs")

RetYs == Slots(ret.val[2].tensor, "ys")

CallsOf(fn) == {k \in DOMAIN calls : calls[k].fn = fn}

\* C1: in sequential mode with batch size B >= 1 and epoch size E >= 1 over at
\* least E*B samples, a pass yields exactly E batches before it ends, and batch
\* i holds the samples at positions i*B .. i*B+B-1, in that order.
C1_SequentialBatchPositions ==
    (/\ ~random_sampling
     /\ batch_size >= 1
     /\ epoch_size >= 1
     /\ Len(samples) >= epoch_size * batch_size)
    => /\ Raised("StopIteration") => yielded = epoch_size
       /\ Returned =>
            /\ yielded <= epoch_size
            /\ Len(RetXs) = batch_size
            /\ \A k \in 1..batch_size :
                  RetXs[k].of = samples[ret.step * batch_size + k]

\* C2: the step counter stays within 0..epoch_size; __iter__ resets it to 0; a
\* pass returns a batch epoch_size times and then every __next__ ends the
\* sequence without computing anything; no batch is attempted once exhausted.
C2_EpochStateMachine ==
    /\ has_it => it \in 0..epoch_size /\ yielded = it
    /\ ret.op = "__iter__" => has_it /\ it = 0 /\ yielded = 0
    /\ (has_it /\ Raised("StopIteration")) => yielded = epoch_size /\ calls = <<>>
    /\ Returned => yielded \in 1..epoch_size /\ ret.step = yielded - 1
    /\ (has_it /\ ret.op = "__next__" /\ ~ret.ok /\ ret.exc # "StopIteration")
          => yielded < epoch_size

C2_Witness ==
    /\ Raised("StopIteration")
    /\ has_it
    /\ epoch_size = 2
    /\ yielded = 2

\* C5: in random mode with batch size B >= 1 over a non-empty collection, a
\* step never fails for an index out of range or for a repeated sample, and a
\* batch it returns has exactly B slots, each holding a sample of the collection.
C5_RandomBatches ==
    (/\ random_sampling
     /\ batch_size >= 1
     /\ Len(samples) >= 1
     /\ has_it
     /\ ret.op = "__next__")
    => /\ ~ret.ok => ret.exc \in {"StopIteration", "loader", "labeler"}
       /\ ret.ok =>
            /\ Len(RetXs) = batch_size
            /\ Len(RetYs) = batch_size
            /\ \A k \in 1..batch_size : RetXs[k].of \in Range(samples)

C5_Witness ==
    /\ random_sampling
    /\ Returned
    /\ Len(samples) = 1
    /\ batch_size = 2
    /\ ret.step >= 1
    /\ RetXs[1].of = RetXs[2].of

\* C7: with a loader transform set, a step that returns a batch called the
\* transform exactly once, after every get_label call, with the stack of all B
\* untransformed inputs and the batch's sample paths, and the input it returns
\* is that call's result; the label batch is changed by the labeler's transform
\* alone.
C7_BatchTransform ==
    Returned =>
        LET x == ret.val[1].tensor
            y == ret.val[2].tensor
            n == 2 * batch_size
        IN  /\ loader.transform =>
                 /\ CallsOf("loader.transform") = {n + 1}
                 /\ CallsOf("loader.get_label") \cup CallsOf("labeler.get_label") = 1..n
                 /\ IsTransformed(x)
                 /\ x.fn = "loader.transform"
                 /\ x.xs = calls[n + 1].arg.xs
                 /\ x.samples = calls[n + 1].arg.samples
                 /\ Len(x.xs.stacked) = batch_size
                 /\ \A k \in 1..batch_size :
                       /\ x.xs.stacked[k] = [by |-> "loader", of |-> calls[2 * k - 1].arg]
                       /\ x.samples[k] = calls[2 * k - 1].arg
            /\ ~loader.transform =>
                 /\ CallsOf("loader.transform") = {}
                 /\ ~IsTransformed(x)
            /\ IsTransformed(y) = labeler.transform
            /\ IsTransformed(y) => y.fn = "labeler.transform"
            /\ \A k \in 1..batch_size :
                  RetYs[k] = [by |-> "labeler", of |-> calls[2 * k].arg]

C7_Witness ==
    /\ Returned
    /\ loader.transform
    /\ ~labeler.transform
    /\ batch_size = 2
    /\ Len(ret.val[1].tensor.samples) = 2

\* C8: a step in which resolving a sample fails gives its caller that failure
\* and no batch, and leaves the step counter as it was; a step that returns a
\* batch resolved every one of its B slots.
C8_FailureAbortsBatch ==
    [][ /\ (ret'.op = "__next__" /\ ~ret'.ok) =>
              /\ it' = it
              /\ yielded' = yielded
              /\ "val" \notin DOMAIN ret'
        /\ (ret'.op = "__next__" /\ ret'.ok) =>
              /\ Len(RetXs') = batch_size
              /\ Len(RetYs') = batch_size
              /\ CallsOf("loader.get_label")' = {2 * k - 1 : k \in 1..batch_size}
              /\ CallsOf("labeler.get_label")' = {2 * k : k \in 1..batch_size}
              /\ it' = it + 1 ]_vars

C8_Witness ==
    /\ Raised("labeler")
    /\ has_it
    /\ it = 1
    /\ Len(calls) = 4

\* C9: in both modes slot k of the input batch and slot k of the label batch
\* are resolved from one selected reference, by the loader and by the labeler,
\* slots are in selection order, and with return_names the k-th returned path
\* is that reference.
C9_SlotsShareSelection ==
    Returned =>
        /\ Len(RetXs) = Len(RetYs)
        /\ Len(ret.val) = IF return_names THEN 3 ELSE 2
        /\ \A k \in 1..Len(RetXs) :
              /\ RetXs[k].by = "loader"
              /\ RetYs[k].by = "labeler"
              /\ RetXs[k].of = RetYs[k].of
              /\ calls[2 * k - 1] = Call("loader.get_label", RetXs[k].of)
              /\ calls[2 * k] = Call("labeler.get_label", RetXs[k].of)
              /\ return_names => ret.val[3][k] = RetXs[k].of
              /\ ~random_sampling => RetXs[k].of = samples[ret.step + k]

C9_Witness ==
    /\ Returned
    /\ random_sampling
    /\ return_names
    /\ batch_size = 2
    /\ ret.val[3] = <<2, 1>>

\* C10 (as claimed): epoch_size None or 0 gives len(samples) steps per pass,
\* batch_size None or 0 gives len(samples) as the batch size, a positive value
\* is used as given, and no epoch of zero steps can be configured.
C10_DefaultSizes ==
    /\ args.epoch_size \in {None, <<0>>} => epoch_size = Len(samples)
    /\ args.batch_size \in {None, <<0>>} => batch_size = Len(samples)
    /\ args.epoch_size \notin {None, <<0>>} => epoch_size = args.epoch_size[1]
    /\ args.batch_size \notin {None, <<0>>} => batch_size = args.batch_size[1]
    /\ (has_it /\ Raised("StopIteration")) => yielded = epoch_size

C10_NoEmptyEpoch == C10_DefaultSizes /\ epoch_size >= 1

\* C10 (amended): as above, but an epoch of zero steps is excluded only over a
\* non-empty sample collection.
C10_NoEmptyEpochOverSamples ==
    C10_DefaultSizes /\ (Len(samples) >= 1 => epoch_size >= 1)

C10_Witness ==
    /\ args.epoch_size = <<0>>
    /\ args.batch_size = None
    /\ Len(samples) = 2
    /\ has_it
    /\ Raised("StopIteration")
    /\ yielded = 2

(* ====================================================================== *)
(* Properties of ClassificationLabeler                                     *)
(* ====================================================================== *)

\* The class index a label stands for: itself, or the place of the 1 in a
\* one-hot vector.
LabelIndex(v) == IF one_hot THEN (CHOOSE k \in DOMAIN v : v[k] = 1) - 1 ELSE v

ClassListIsSortedSet ==
    /\ Range(classes) = {get_class(s) : s \in Range(cl_samples)}
    /\ \A k \in 1..(Len(classes) - 1) : str_lt(classes[k], classes[k + 1])

LabelIsClassPosition ==
    cl_ret.op = "get_label" =>
        /\ cl_ret.ok = (get_class(cl_ret.s) \in Range(classes))
        /\ cl_ret.ok =>
             /\ LabelIndex(cl_ret.val) \in 0..(Len(classes) - 1)
             /\ classes[LabelIndex(cl_ret.val) + 1] = get_class(cl_ret.s)
             /\ one_hot => /\ Len(cl_ret.val) = Len(classes)
                           /\ Cardinality({k \in DOMAIN cl_ret.val : cl_ret.val[k] = 1}) = 1
                           /\ Range(cl_ret.val) \subseteq {0, 1}

\* C6: the class list is the set of the samples' immediate parent-folder
\* names, strictly ascending, and get_label never changes it; get_label of a
\* sample gives the position of its parent-folder name in the class list, and
\* gives the same label when called again on the same reference.
C6_ClassListFixedAndSorted ==
    /\ [](ClassListIsSortedSet /\ LabelIsClassPosition)
    /\ [][ /\ classes' = classes
           /\ (cl_ret.op = "get_label" /\ cl_ret'.s = cl_ret.s) => cl_ret' = cl_ret
         ]_vars

C6_Witness ==
    /\ cl_samples = << <<<<"b">>, File1>>, <<<<"B">>, File1>>, <<<<"b">>, File2>> >>
    /\ classes = << <<"B">>, <<"b">> >>
    /\ cl_ret.op = "get_label"
    /\ cl_ret.ok
    /\ cl_ret.s = <<<<"b">>, File2>>
    /\ LabelIndex(cl_ret.val) = 1
    /\ one_hot

(* ====================================================================== *)
(* Properties of LocalizationLabeler                                       *)
(* ====================================================================== *)

LastIndex(s, c) == CHOOSE k \in DOMAIN s : s[k] = c /\ \A j \in (k + 1)..Len(s) : s[j] # c

\* The name without its extension: what precedes the last '.', if there is one.
Stem(name) ==
    IF \E k \in DOMAIN name : name[k] = "."
    THEN SubSeq(name, 1, LastIndex(name, ".") - 1)
    ELSE name

Extension(name) ==
    IF \E k \in DOMAIN name : name[k] = "."
    THEN SubSeq(name, LastIndex(name, ".") + 1, Len(name))
    ELSE <<>>

\* A decimal number: an optional '-', digits, and optionally a point and digits.
IsDecimal(c) ==
    LET body == IF c # <<>> /\ c[1] = "-" THEN Tail(c) ELSE c
    IN  \E n \in 1..Len(body) :
           /\ \A k \in 1..n : body[k] = "1"
           /\ \/ n = Len(body)
              \/ /\ n + 2 <= Len(body)
                 /\ body[n + 1] = "."
                 /\ \A k \in (n + 2)..Len(body) : body[k] = "1"

\* n underscore-separated decimal numbers followed by a file extension
IsCoordinateName(name) ==
    /\ Extension(name) # <<>>
    /\ \A k \in DOMAIN Extension(name) : Extension(name)[k] = "p"
    /\ \A k \in DOMAIN str_split(Stem(name), "_") : IsDecimal(str_split(Stem(name), "_")[k])

\* C3: with no lookup table, get_label of a sample whose file name is n
\* underscore-separated decimal numbers and an extension returns the vector of
\* exactly those n numbers, in file name order.
C3_FilenameRoundTrip ==
    (/\ locations = None
     /\ loc_ret.op = "get_label"
     /\ IsCoordinateName(basename(loc_sample)))
    => /\ loc_ret.ok
       /\ loc_ret.out = float_array(str_split(Stem(basename(loc_sample)), "_")).val

\* C4: a labeler built with a lookup table, with or without entries, never
\* parses the file name: get_label returns the entry under the key
\* "{folder}/{filename-without-extension}" and fails with a lookup failure when
\* the table has no such key. Stated for the samples whose file name holds a
\* single '.', where the name without extension is not in question.
C4_TableLookupOnly ==
    (/\ locations # None
     /\ loc_ret.op = "get_label"
     /\ Cardinality({k \in DOMAIN basename(loc_sample) : basename(loc_sample)[k] = "."}) = 1)
    => LET key == basename(dirname(loc_sample)) \o <<"/">> \o Stem(basename(loc_sample))
       IN  IF key \in DOMAIN locations[1]
           THEN loc_ret.ok /\ loc_ret.out = float_array(locations[1][key]).val
           ELSE ~loc_ret.ok /\ loc_ret.out = "KeyError"

====
